---- MODULE Spec2Model ----
(***************************************************************************)
(* A model of the ilert-go client library: the client configuration built  *)
(* by NewClient, the request/response/error convention shared by the       *)
(* resource operations (incidents, escalation policies, connectors), the   *)
(* status check catchGenericAPIError and the decoding of JSON bodies.      *)
(***************************************************************************)
EXTENDS Integers, Sequences, FiniteSets, TLC

VARIABLES client, created, pc, call, wire, net, ret, check

vars == <<client, created, pc, call, wire, net, ret, check>>

(***************************************************************************)
(* Bounds of the model.                                                    *)
(***************************************************************************)
\* resource ids are drawn from 1..MaxID
MaxID == 1
\* the list fields of GetIncidentsInput hold at most MaxListLen elements
MaxListLen == 1
\* concurrent callers sharing one client (specification SpecConc)
NumCallers == 2
\* catchGenericAPIError is applied to at most MaxExpected expected status codes
MaxExpected == 2
MaxOptions == 2

(***************************************************************************)
(* Go pointers and optional values: nil is the empty tuple, a non-nil      *)
(* pointer to v is <<v>>.  A slice is nil or <<its sequence of elements>>. *)
(***************************************************************************)
Nil == <<>>
Some(v) == <<v>>
Deref(p) == p[1]

(***************************************************************************)
(* strconv.Itoa / strconv.FormatInt(_, 10) / the %d verb.                  *)
(***************************************************************************)
Digits == <<"0", "1", "2", "3", "4", "5", "6", "7", "8", "9">>

RECURSIVE ItoaNat(_)
ItoaNat(n) ==
    IF n < 10 THEN Digits[n + 1]
    ELSE ItoaNat(n \div 10) \o Digits[(n % 10) + 1]

Itoa(n) == IF n < 0 THEN "-" \o ItoaNat(0 - n) ELSE ItoaNat(n)

(***************************************************************************)
(* Error values.  errors.New and fmt.Errorf build an error holding a text; *)
(* the transport and encoding/json have error types of their own.          *)
(***************************************************************************)
errors_New(text) == [kind |-> "errorString", s |-> text]
fmt_Errorf(text) == [kind |-> "errorString", s |-> text]
SyntaxError(j) == [kind |-> "json.SyntaxError", s |-> j.t]
UnmarshalTypeError(j, T) ==
    [kind |-> "json.UnmarshalTypeError", s |-> j.t \o " into " \o T.k]
TransportErrors ==
    { [kind |-> "url.Error", s |-> "timeout"],
      [kind |-> "url.Error", s |-> "connection refused"] }

(***************************************************************************)
(* JSON documents.  A body is a JSON value, or bytes that are no JSON      *)
(* ("bad") or no bytes at all ("empty").                                   *)
(***************************************************************************)
JNull == [t |-> "null"]
JNum(n) == [t |-> "num", n |-> n]
JStr(s) == [t |-> "str", s |-> s]
JBool(b) == [t |-> "bool", b |-> b]
JArr(a) == [t |-> "arr", a |-> a]
JObj(o) == [t |-> "obj", o |-> o]
JBad == [t |-> "bad"]
JEmpty == [t |-> "empty"]

ValidJSON(j) == j.t \notin {"bad", "empty"}

(***************************************************************************)
(* Go types, as far as encoding/json looks at them.                        *)
(***************************************************************************)
TInt == [k |-> "int"]
TString == [k |-> "string"]
TBool == [k |-> "bool"]
TAny == [k |-> "interface"]
TMap == [k |-> "map"]
TPtr(T) == [k |-> "ptr", elem |-> T]
TSlice(T) == [k |-> "slice", elem |-> T]
TStruct(name, fields) == [k |-> "struct", name |-> name, fields |-> fields]
Field(name, key, T, omitempty) ==
    [name |-> name, key |-> key, type |-> T, omitempty |-> omitempty]

FieldNames(T) == { T.fields[i].name : i \in 1..Len(T.fields) }
FieldOf(T, name) ==
    T.fields[CHOOSE i \in 1..Len(T.fields) : T.fields[i].name = name]

RECURSIVE Zero(_)
Zero(T) ==
    CASE T.k = "int" -> 0
      [] T.k = "string" -> ""
      [] T.k = "bool" -> FALSE
      [] T.k = "struct" -> [n \in FieldNames(T) |-> Zero(FieldOf(T, n).type)]
      [] OTHER -> Nil

(***************************************************************************)
(* json.Unmarshal.  Decode(j, T, cur) decodes the JSON value j into a Go   *)
(* value of type T that holds cur, and gives the new value with the first  *)
(* error met: a null leaves a non-pointer value alone and sets a pointer,  *)
(* slice, map or interface to nil; a value of the wrong JSON type is       *)
(* skipped and reported as an UnmarshalTypeError, after which decoding     *)
(* goes on with the remaining fields; unknown object keys are ignored.     *)
(***************************************************************************)
FirstErr(e1, e2) == IF e1 # Nil THEN e1 ELSE e2

RECURSIVE Decode(_, _, _)
RECURSIVE DecodeFields(_, _, _, _, _)
RECURSIVE DecodeElems(_, _, _, _, _)

DecodeFields(o, T, i, cur, err) ==
    IF i > Len(T.fields) THEN [v |-> cur, e |-> err]
    ELSE LET f == T.fields[i] IN
         IF f.key \in DOMAIN o
         THEN LET d == Decode(o[f.key], f.type, cur[f.name]) IN
              DecodeFields(o, T, i + 1, [cur EXCEPT ![f.name] = d.v],
                           FirstErr(err, d.e))
         ELSE DecodeFields(o, T, i + 1, cur, err)

DecodeElems(a, T, i, acc, err) ==
    IF i > Len(a) THEN [v |-> Some(acc), e |-> err]
    ELSE LET d == Decode(a[i], T.elem, Zero(T.elem)) IN
         DecodeElems(a, T, i + 1, Append(acc, d.v), FirstErr(err, d.e))

Decode(j, T, cur) ==
    IF j.t = "null"
    THEN [v |-> IF T.k \in {"ptr", "slice", "map", "interface"} THEN Nil ELSE cur,
          e |-> Nil]
    ELSE CASE T.k = "ptr" ->
                LET d == Decode(j, T.elem,
                                IF cur = Nil THEN Zero(T.elem) ELSE Deref(cur))
                IN [v |-> Some(d.v), e |-> d.e]
           [] T.k = "interface" -> [v |-> Some(j), e |-> Nil]
           [] T.k = "int" ->
                IF j.t = "num" THEN [v |-> j.n, e |-> Nil]
                ELSE [v |-> cur, e |-> Some(UnmarshalTypeError(j, T))]
           [] T.k = "string" ->
                IF j.t = "str" THEN [v |-> j.s, e |-> Nil]
                ELSE [v |-> cur, e |-> Some(UnmarshalTypeError(j, T))]
           [] T.k = "bool" ->
                IF j.t = "bool" THEN [v |-> j.b, e |-> Nil]
                ELSE [v |-> cur, e |-> Some(UnmarshalTypeError(j, T))]
           [] T.k = "map" ->
                IF j.t = "obj" THEN [v |-> Some(j.o), e |-> Nil]
                ELSE [v |-> cur, e |-> Some(UnmarshalTypeError(j, T))]
           [] T.k = "slice" ->
                IF j.t = "arr" THEN DecodeElems(j.a, T, 1, <<>>, Nil)
                ELSE [v |-> cur, e |-> Some(UnmarshalTypeError(j, T))]
           [] T.k = "struct" ->
                IF j.t = "obj" THEN DecodeFields(j.o, T, 1, cur, Nil)
                ELSE [v |-> cur, e |-> Some(UnmarshalTypeError(j, T))]

\* json.Unmarshal(body, &target): the bytes are checked to be JSON first
Unmarshal(body, T, cur) ==
    IF ~ValidJSON(body) THEN [v |-> cur, e |-> Some(SyntaxError(body))]
    ELSE Decode(body, T, cur)

(***************************************************************************)
(* The record types of the API.  User, AlertSource, Schedule, TeamShort    *)
(* and Phone are declared in files outside the modelled sources: they      *)
(* stand here as structs whose fields are not known.                       *)
(***************************************************************************)
Undeclared(name) == TStruct(name, <<>>)
User == Undeclared("User")
AlertSource == Undeclared("AlertSource")
Schedule == Undeclared("Schedule")
TeamShort == Undeclared("TeamShort")
Phone == Undeclared("Phone")

GenericErrorResponse ==
    TStruct("GenericErrorResponse",
        << Field("Status", "status", TInt, FALSE),
           Field("Message", "message", TString, FALSE),
           Field("Code", "code", TString, FALSE) >>)

GenericCountResponse ==
    TStruct("GenericCountResponse", << Field("Count", "count", TInt, FALSE) >>)

IncidentImage ==
    TStruct("IncidentImage",
        << Field("Src", "src", TString, FALSE),
           Field("Href", "href", TString, FALSE),
           Field("Alt", "alt", TString, FALSE) >>)

IncidentLink ==
    TStruct("IncidentLink",
        << Field("Text", "text", TString, FALSE),
           Field("Href", "href", TString, FALSE) >>)

CallRoutingNumber ==
    TStruct("CallRoutingNumber",
        << Field("ID", "id", TInt, FALSE),
           Field("Number", "number", Phone, FALSE),
           Field("VoiceLanguageLocale", "voiceLanguageLocale", TString, FALSE),
           Field("AlertSource", "alertSource", TPtr(AlertSource), FALSE) >>)

Incident ==
    TStruct("Incident",
        << Field("ID", "id", TInt, FALSE),
           Field("Summary", "summary", TString, FALSE),
           Field("Details", "details", TString, FALSE),
           Field("ReportTime", "reportTime", TString, FALSE),
           Field("ResolvedOn", "resolvedOn", TString, FALSE),
           Field("Status", "status", TString, FALSE),
           Field("AlertSource", "alertSource", TPtr(AlertSource), TRUE),
           Field("Priority", "priority", TString, FALSE),
           Field("IncidentKey", "incidentKey", TString, FALSE),
           Field("AssignedTo", "assignedTo", TPtr(User), TRUE),
           Field("NextEscalation", "nextEscalation", TString, FALSE),
           Field("CallRoutingNumber", "callRoutingNumber", TPtr(CallRoutingNumber), TRUE),
           Field("AcknowledgedBy", "acknowledgedBy", TPtr(User), TRUE),
           Field("AcknowledgedByType", "acknowledgedByType", TString, TRUE),
           Field("ResolvedBy", "resolvedBy", TPtr(User), TRUE),
           Field("ResolvedByType", "resolvedByType", TString, TRUE),
           Field("Images", "images", TSlice(IncidentImage), TRUE),
           Field("Links", "links", TSlice(IncidentLink), TRUE),
           Field("CustomDetails", "customDetails", TMap, TRUE) >>)

IncidentResponder ==
    TStruct("IncidentResponder",
        << Field("ID", "id", TInt, FALSE),
           Field("Name", "name", TString, FALSE),
           Field("Group", "group", TString, FALSE),
           Field("Disabled", "disabled", TBool, FALSE) >>)

IncidentLogEntry ==
    TStruct("IncidentLogEntry",
        << Field("ID", "id", TInt, FALSE),
           Field("Timestamp", "timestamp", TString, FALSE),
           Field("LogEntryType", "logEntryType", TString, FALSE),
           Field("Text", "text", TString, FALSE),
           Field("IncidentID", "incidentId", TInt, FALSE) >>)

IncidentActionResult ==
    TStruct("IncidentActionResult",
        << Field("ID", "id", TString, FALSE),
           Field("IncidentID", "incidentId", TInt, FALSE),
           Field("WebhookID", "webhookId", TString, FALSE),
           Field("ExtensionID", "extensionId", TString, FALSE),
           Field("Actor", "actor", User, FALSE),
           Field("Success", "success", TBool, FALSE) >>)

IncidentAction ==
    TStruct("IncidentAction",
        << Field("Name", "name", TString, FALSE),
           Field("WebhookID", "webhookId", TString, FALSE),
           Field("ExtensionID", "extensionId", TString, FALSE),
           Field("IconURL", "iconUrl", TString, FALSE),
           Field("History", "history", TSlice(IncidentActionResult), FALSE) >>)

EscalationRule ==
    TStruct("EscalationRule",
        << Field("User", "user", TPtr(User), TRUE),
           Field("Schedule", "schedule", TPtr(Schedule), TRUE),
           Field("EscalationTimeout", "escalationTimeout", TInt, FALSE) >>)

EscalationPolicy ==
    TStruct("EscalationPolicy",
        << Field("ID", "id", TInt, TRUE),
           Field("Name", "name", TString, FALSE),
           Field("EscalationRules", "escalationRules", TSlice(EscalationRule), FALSE),
           Field("Repeating", "repeating", TBool, TRUE),
           Field("Frequency", "frequency", TInt, TRUE),
           Field("Teams", "teams", TSlice(TeamShort), TRUE) >>)

Connector ==
    TStruct("Connector",
        << Field("ID", "id", TString, TRUE),
           Field("Name", "name", TString, FALSE),
           Field("Type", "type", TString, FALSE),
           Field("CreatedAt", "createdAt", TString, TRUE),
           Field("UpdatedAt", "updatedAt", TString, TRUE),
           Field("Params", "params", TAny, FALSE) >>)

ConnectorOutputParams ==
    TStruct("ConnectorOutputParams",
        << Field("APIKey", "apiKey", TString, TRUE),
           Field("Authorization", "authorization", TString, TRUE),
           Field("URL", "url", TString, TRUE),
           Field("Email", "email", TString, TRUE),
           Field("Username", "username", TString, TRUE),
           Field("Password", "password", TString, TRUE) >>)

ConnectorOutput ==
    TStruct("ConnectorOutput",
        << Field("ID", "id", TString, FALSE),
           Field("Name", "name", TString, FALSE),
           Field("Type", "type", TString, FALSE),
           Field("CreatedAt", "createdAt", TString, FALSE),
           Field("UpdatedAt", "updatedAt", TString, FALSE),
           Field("Params", "params", ConnectorOutputParams, FALSE) >>)

ConnectorParamsDatadog ==
    TStruct("ConnectorParamsDatadog", << Field("APIKey", "apiKey", TString, FALSE) >>)

(***************************************************************************)
(* json.Marshal.  A value of an interface type is nil or holds either a    *)
(* value of the form Unmarshal produces (kept as its JSON tree: float64,   *)
(* string, bool, []interface{}, map[string]interface{}) or a value of some *)
(* other Go type, Dyn(T, v).  A field tagged omitempty is left out when it *)
(* is false, 0, the empty string, a nil pointer or interface, or a slice   *)
(* or map of length 0; a nil slice, map, pointer or interface is encoded   *)
(* as null; a string is coerced to valid UTF-8 (InvalidUTF8 stands for a   *)
(* string with a byte that is no UTF-8, coerced to U+FFFD).                *)
(***************************************************************************)
Dyn(T, v) == [dyn |-> <<T.k, T, v>>]
IsDyn(x) == "dyn" \in DOMAIN x

InvalidUTF8 == "\\xff"
ToValidUTF8(s) == IF s = InvalidUTF8 THEN "\\ufffd" ELSE s

\* omitempty leaving out nil slices and maps only, not the empty ones
isEmptyValue_NilOnly(v, T) ==
    CASE T.k = "int" -> v = 0
      [] T.k = "string" -> v = ""
      [] T.k = "bool" -> v = FALSE
      [] T.k \in {"ptr", "interface", "slice", "map"} -> v = Nil
      [] OTHER -> FALSE

isEmptyValue(v, T) ==
    CASE T.k = "int" -> v = 0
      [] T.k = "string" -> v = ""
      [] T.k = "bool" -> v = FALSE
      [] T.k \in {"ptr", "interface"} -> v = Nil
      [] T.k = "slice" -> v = Nil \/ Len(Deref(v)) = 0
      [] T.k = "map" -> v = Nil \/ DOMAIN Deref(v) = {}
      [] OTHER -> FALSE

RECURSIVE Marshal(_, _)
RECURSIVE MarshalAny(_)

MarshalStruct(v, T) ==
    LET kept == { i \in 1..Len(T.fields) :
                    ~(T.fields[i].omitempty
                      /\ isEmptyValue(v[T.fields[i].name], T.fields[i].type)) }
        keys == { T.fields[i].key : i \in kept }
    IN JObj([k \in keys |->
                LET f == T.fields[CHOOSE i \in kept : T.fields[i].key = k]
                IN Marshal(v[f.name], f.type)])

MarshalAny(x) ==
    IF IsDyn(x) THEN Marshal(x.dyn[3], x.dyn[2])
    ELSE CASE x.t = "str" -> JStr(ToValidUTF8(x.s))
           [] x.t = "arr" -> JArr([i \in 1..Len(x.a) |-> MarshalAny(x.a[i])])
           [] x.t = "obj" -> JObj([k \in DOMAIN x.o |-> MarshalAny(x.o[k])])
           [] OTHER -> x

Marshal(v, T) ==
    CASE T.k = "int" -> JNum(v)
      [] T.k = "string" -> JStr(ToValidUTF8(v))
      [] T.k = "bool" -> JBool(v)
      [] T.k = "ptr" -> IF v = Nil THEN JNull ELSE Marshal(Deref(v), T.elem)
      [] T.k = "interface" -> IF v = Nil THEN JNull ELSE MarshalAny(Deref(v))
      [] T.k = "map" ->
            IF v = Nil THEN JNull
            ELSE JObj([k \in DOMAIN Deref(v) |-> MarshalAny(Deref(v)[k])])
      [] T.k = "slice" ->
            IF v = Nil THEN JNull
            ELSE JArr([i \in 1..Len(Deref(v)) |-> Marshal(Deref(v)[i], T.elem)])
      [] T.k = "struct" -> MarshalStruct(v, T)

(***************************************************************************)
(* The client: its own apiEndpoint field and the resty HTTP client with    *)
(* the settings every request made from it inherits.  resty.New() starts   *)
(* with no base URL, no headers, no credentials, no client-level query     *)
(* parameters and a retry count of 0.                                      *)
(***************************************************************************)
apiEndpoint == "https://api.ilert.com"
apiTimeoutMs == 30000
Version == "version"

resty_New ==
    [ HostURL |-> "", Timeout |-> 0, Header |-> <<>>, UserInfo |-> Nil,
      QueryParam |-> <<>>, RetryCount |-> 0 ]

\* strings.TrimRight(url, "/"), found among the URLs the model uses
RECURSIVE TrimRightSlash(_)
TrimRightSlash(url) ==
    LET URLs == { "https://api.ilert.com", "https://eu.ilert.com",
                  "https://my.ilert.com", "https://my.ilert.com/" }
    IN IF \E u \in URLs : u \o "/" = url
       THEN TrimRightSlash(CHOOSE u \in URLs : u \o "/" = url)
       ELSE url

\* resty keeps the base URL without its trailing slashes
SetHostURL(h, url) == [h EXCEPT !.HostURL = TrimRightSlash(url)]
SetTimeout(h, ms) == [h EXCEPT !.Timeout = ms]
SetHeader(h, key, value) ==
    [h EXCEPT !.Header =
        [x \in DOMAIN h.Header \cup {key} |-> IF x = key THEN value ELSE h.Header[x]]]
SetBasicAuth(h, username, password) ==
    [h EXCEPT !.UserInfo = Some([Username |-> username, Password |-> password])]

EnvKeys ==
    { "ILERT_ENDPOINT", "ILERT_API_TOKEN", "ILERT_ORGANIZATION",
      "ILERT_USERNAME", "ILERT_PASSWORD" }

\* the environment maps every key to Nil (unset) or to Some(value);
\* os.Getenv gives "" for a key that is unset
os_Getenv(env, key) == IF env[key] = Nil THEN "" ELSE Deref(env[key])

\* getEnv looking the key up: a variable that is set counts, empty or not
getEnv_LookupEnv(env, key) == env[key]

getEnv(env, key) ==
    LET v == os_Getenv(env, key)
    IN IF Len(v) # 0 THEN Some(v) ELSE Nil

WithBasicAuth(organizationID, username, password, c) ==
    [c EXCEPT !.httpClient =
        SetBasicAuth(@, username \o "@" \o organizationID, password)]

WithAPIToken(apiToken, c) ==
    [c EXCEPT !.httpClient = SetHeader(@, "Authorization", "Bearer " \o apiToken)]

WithAPIEndpoint(endpoint, c) ==
    [c EXCEPT !.apiEndpoint = endpoint, !.httpClient = SetHostURL(@, endpoint)]

WithUserAgent(agent, c) ==
    [c EXCEPT !.httpClient = SetHeader(@, "User-Agent", agent)]

\* a ClientOptions value is the closure one of the With... functions returns
ClientOptions(opt, c) ==
    CASE opt.name = "WithBasicAuth" -> WithBasicAuth(opt.a[1], opt.a[2], opt.a[3], c)
      [] opt.name = "WithAPIToken" -> WithAPIToken(opt.a[1], c)
      [] opt.name = "WithAPIEndpoint" -> WithAPIEndpoint(opt.a[1], c)
      [] opt.name = "WithUserAgent" -> WithUserAgent(opt.a[1], c)

RECURSIVE ApplyOptions(_, _, _)
ApplyOptions(options, i, c) ==
    IF i > Len(options) THEN c
    ELSE ApplyOptions(options, i + 1, ClientOptions(options[i], c))

NewClient(env, options) ==
    LET h1 == SetHostURL(resty_New, apiEndpoint)
        h2 == SetTimeout(h1, apiTimeoutMs)
        h3 == SetHeader(h2, "Accept", "application/json")
        h4 == SetHeader(h3, "Content-Type", "application/json")
        h5 == SetHeader(h4, "User-Agent", "ilert-go/" \o Version)
        h6 == SetHeader(h5, "Accept-Encoding", "gzip")
        endpoint == getEnv(env, "ILERT_ENDPOINT")
        h7 == IF endpoint # Nil THEN SetHostURL(h6, Deref(endpoint)) ELSE h6
        c0 == [apiEndpoint |-> apiEndpoint, httpClient |-> h7]
        apiToken == getEnv(env, "ILERT_API_TOKEN")
        organizationID == getEnv(env, "ILERT_ORGANIZATION")
        username == getEnv(env, "ILERT_USERNAME")
        password == getEnv(env, "ILERT_PASSWORD")
        c1 == IF apiToken # Nil THEN WithAPIToken(Deref(apiToken), c0)
              ELSE IF organizationID # Nil /\ username # Nil /\ password # Nil
                   THEN WithBasicAuth(Deref(organizationID), Deref(username),
                                      Deref(password), c0)
                   ELSE c0
    IN ApplyOptions(options, 1, c1)

(***************************************************************************)
(* The status check.  A response is [StatusCode, Body]; the result is nil  *)
(* or the error.                                                           *)
(***************************************************************************)
intSliceContains(slice, x) == \E i \in 1..Len(slice) : slice[i] = x

\* the status compared with the first expected code only
catchGenericAPIError_FirstOnly(response, expectedStatusCode) ==
    IF Len(expectedStatusCode) = 0 \/ expectedStatusCode[1] # response.StatusCode
    THEN LET restErr == fmt_Errorf("Wrong status code " \o Itoa(response.StatusCode))
             d == Unmarshal(response.Body, GenericErrorResponse,
                            Zero(GenericErrorResponse))
             respBody == d.v
         IN IF d.e = Nil /\ respBody.Message # ""
            THEN Some(fmt_Errorf(respBody.Code \o ": " \o respBody.Message))
            ELSE Some(restErr)
    ELSE Nil

\* the envelope decoded but never used: always the generic error
catchGenericAPIError_NoEnvelope(response, expectedStatusCode) ==
    IF ~intSliceContains(expectedStatusCode, response.StatusCode)
    THEN Some(fmt_Errorf("Wrong status code " \o Itoa(response.StatusCode)))
    ELSE Nil

\* the decode error not looked at: a message decoded before the error is used
catchGenericAPIError_IgnoreErr(response, expectedStatusCode) ==
    IF ~intSliceContains(expectedStatusCode, response.StatusCode)
    THEN LET restErr == fmt_Errorf("Wrong status code " \o Itoa(response.StatusCode))
             d == Unmarshal(response.Body, GenericErrorResponse,
                            Zero(GenericErrorResponse))
             respBody == d.v
         IN IF respBody.Message # ""
            THEN Some(fmt_Errorf(respBody.Code \o ": " \o respBody.Message))
            ELSE Some(restErr)
    ELSE Nil

catchGenericAPIError(response, expectedStatusCode) ==
    IF ~intSliceContains(expectedStatusCode, response.StatusCode)
    THEN LET restErr == fmt_Errorf("Wrong status code " \o Itoa(response.StatusCode))
             d == Unmarshal(response.Body, GenericErrorResponse,
                            Zero(GenericErrorResponse))
             respBody == d.v
         IN IF d.e = Nil /\ respBody.Message # ""
            THEN Some(fmt_Errorf(respBody.Code \o ": " \o respBody.Message))
            ELSE Some(restErr)
    ELSE Nil

\* the check the operations call, with the one status code they expect
getGenericAPIError(response, expectedStatusCode) ==
    catchGenericAPIError(response, <<expectedStatusCode>>)

(***************************************************************************)
(* Routes, query strings and requests.  A url.Values is the sequence of    *)
(* its (key, value) pairs in the order they were added; Encode lists them  *)
(* sorted by key, the values of one key in the order added.  A request is  *)
(* [Method, Path, Query, Body]: Path ends in "?" when the operation        *)
(* formats a query string after it, and Query is that encoded string.      *)
(***************************************************************************)
apiRoutes ==
    [ connectors |-> "/api/v1/connectors",
      escalationPolicies |-> "/api/v1/escalation-policies",
      incidents |-> "/api/v1/incidents" ]

url_Values == <<>>
Add(q, key, value) == Append(q, [k |-> key, v |-> value])

SortedKeys ==
    << "alert-source", "assigned-to", "from", "lng", "max-results", "policy-id",
       "schedule-id", "start-index", "state", "until", "user-id" >>

RECURSIVE EncodeFrom(_, _)
EncodeFrom(q, i) ==
    IF i > Len(SortedKeys) THEN <<>>
    ELSE LET HasKey(p) == p.k = SortedKeys[i]
         IN SelectSeq(q, HasKey) \o EncodeFrom(q, i + 1)

Encode(q) == EncodeFrom(q, 1)

\* for _, x := range list { q.Add(key, *x) }, the values already formatted
RECURSIVE AddEach(_, _, _, _)
AddEach(q, key, list, i) ==
    IF i > Len(list) THEN q
    ELSE AddEach(Add(q, key, Deref(list[i])), key, list, i + 1)

RECURSIVE FormatEach(_, _)
FormatEach(list, i) ==
    IF i > Len(list) THEN <<>>
    ELSE <<Some(Itoa(Deref(list[i])))>> \o FormatEach(list, i + 1)

HasNil(list) == \E i \in 1..Len(list) : list[i] = Nil

Request(method, path, query, body) ==
    [Method |-> method, Path |-> path, Query |-> query, Body |-> body]

(***************************************************************************)
(* What an operation does up to its HTTP call: it returns an error without *)
(* calling (Fail), it faults on a nil pointer (Panic), or it sends one     *)
(* request, expects one status code and names the way the body is decoded  *)
(* into its output (Do).                                                   *)
(***************************************************************************)
Fail(text) == [kind |-> "fail", err |-> errors_New(text)]
Panic == [kind |-> "panic"]
Do(req, expected, decode) ==
    [kind |-> "send", req |-> req, expected |-> expected, decode |-> decode]

\* x := &T{}; json.Unmarshal(body, x); return &Output{field: x}
IntoStruct(T, field) ==
    Some([T |-> T, cur |-> Zero(T), field |-> field, wrap |-> "pointer"])
\* xs := make([]*T, 0); json.Unmarshal(body, &xs); return &Output{field: xs}
IntoSlice(T, field) ==
    Some([T |-> TSlice(TPtr(T)), cur |-> Some(<<>>), field |-> field, wrap |-> "value"])
\* body := &GenericCountResponse{}; ...; return &Output{Count: body.Count}
IntoCount ==
    Some([T |-> GenericCountResponse, cur |-> Zero(GenericCountResponse),
          field |-> "Count", wrap |-> "count"])
\* the delete operations return an empty output without reading the body
NoResult == Nil

(***************************************************************************)
(* Incidents.                                                              *)
(***************************************************************************)
\* GetIncident without the check of the id: the nil id is dereferenced
GetIncident_NoIDCheck(input) ==
    IF input = Nil THEN Fail("input is required")
    ELSE IF Deref(input).IncidentID = Nil THEN Panic
    ELSE Do(Request("GET",
                    apiRoutes.incidents \o "/" \o Itoa(Deref(Deref(input).IncidentID)),
                    <<>>, Nil),
            200, IntoStruct(Incident, "Incident"))

GetIncident(input) ==
    IF input = Nil THEN Fail("input is required")
    ELSE IF Deref(input).IncidentID = Nil THEN Fail("Incident id is required")
    ELSE Do(Request("GET",
                    apiRoutes.incidents \o "/" \o Itoa(Deref(Deref(input).IncidentID)),
                    <<>>, Nil),
            200, IntoStruct(Incident, "Incident"))

GetIncidentsInputZero ==
    [ StartIndex |-> Nil, MaxResults |-> Nil, States |-> <<>>, AlertSources |-> <<>>,
      AssignedToUserIDs |-> <<>>, AssignedToUserNames |-> <<>>,
      From |-> Nil, Until |-> Nil ]

GetIncidents(input) ==
    LET in == IF input = Nil THEN GetIncidentsInputZero ELSE Deref(input)
        q1 == IF in.StartIndex # Nil
              THEN Add(url_Values, "start-index", Itoa(Deref(in.StartIndex)))
              ELSE url_Values
        q2 == IF in.MaxResults # Nil
              THEN Add(q1, "max-results", Itoa(Deref(in.MaxResults))) ELSE q1
        q3 == IF in.From # Nil THEN Add(q2, "from", Deref(in.From)) ELSE q2
        q4 == IF in.Until # Nil THEN Add(q3, "until", Deref(in.From)) ELSE q3
        q5 == AddEach(q4, "state", in.States, 1)
        q6 == AddEach(q5, "alert-source", FormatEach(in.AlertSources, 1), 1)
        q7 == AddEach(q6, "assigned-to", FormatEach(in.AssignedToUserIDs, 1), 1)
        q8 == AddEach(q7, "assigned-to", in.AssignedToUserNames, 1)
        nilDeref == \/ in.Until # Nil /\ in.From = Nil
                    \/ HasNil(in.States) \/ HasNil(in.AlertSources)
                    \/ HasNil(in.AssignedToUserIDs) \/ HasNil(in.AssignedToUserNames)
    IN IF nilDeref THEN Panic
       ELSE Do(Request("GET", apiRoutes.incidents \o "?", Encode(q8), Nil),
               200, IntoSlice(Incident, "Incidents"))

GetIncidentsCountInputZero ==
    [ States |-> <<>>, AlertSources |-> <<>>, AssignedToUserIDs |-> <<>>,
      AssignedToUserNames |-> <<>>, From |-> Nil, Until |-> Nil ]

GetIncidentsCount(input) ==
    LET in == IF input = Nil THEN GetIncidentsCountInputZero ELSE Deref(input)
        q1 == IF in.From # Nil THEN Add(url_Values, "from", Deref(in.From))
              ELSE url_Values
        q2 == IF in.Until # Nil THEN Add(q1, "until", Deref(in.From)) ELSE q1
        q3 == AddEach(q2, "state", in.States, 1)
        q4 == AddEach(q3, "alert-source", FormatEach(in.AlertSources, 1), 1)
        q5 == AddEach(q4, "assigned-to", FormatEach(in.AssignedToUserIDs, 1), 1)
        q6 == AddEach(q5, "assigned-to", in.AssignedToUserNames, 1)
        nilDeref == \/ in.Until # Nil /\ in.From = Nil
                    \/ HasNil(in.States) \/ HasNil(in.AlertSources)
                    \/ HasNil(in.AssignedToUserIDs) \/ HasNil(in.AssignedToUserNames)
    IN IF nilDeref THEN Panic
       ELSE Do(Request("GET", apiRoutes.incidents \o "/count?", Encode(q6), Nil),
               200, IntoCount)

\* the query q with lng is built and then left out of the request
GetIncidentResponder(input) ==
    IF input = Nil THEN Fail("input is required")
    ELSE IF Deref(input).IncidentID = Nil THEN Fail("Incident id is required")
    ELSE LET in == Deref(input)
             q == IF in.Language # Nil
                  THEN IF Deref(in.Language) = "en" THEN Add(url_Values, "lng", "en")
                       ELSE IF Deref(in.Language) = "de" THEN Add(url_Values, "lng", "de")
                       ELSE url_Values
                  ELSE url_Values
         IN Do(Request("GET",
                       apiRoutes.incidents \o "/" \o Itoa(Deref(in.IncidentID))
                           \o "/responder",
                       <<>>, Nil),
               200, IntoSlice(IncidentResponder, "Responders"))

\* AssignIncident knowing users and policies only: a schedule is no assignment
AssignIncident_NoSchedule(input) ==
    IF input = Nil THEN Fail("input is required")
    ELSE IF Deref(input).IncidentID = Nil THEN Fail("Incident id is required")
    ELSE LET in == Deref(input) IN
         IF in.UserID = Nil /\ in.Username = Nil /\ in.EscalationPolicyID = Nil
         THEN Fail("one of assignments is required")
         ELSE LET q1 == IF in.UserID # Nil
                        THEN Add(url_Values, "user-id", Itoa(Deref(in.UserID)))
                        ELSE url_Values
                  q2 == IF in.Username # Nil
                        THEN Add(q1, "user-id", Deref(in.Username)) ELSE q1
                  q3 == IF in.EscalationPolicyID # Nil
                        THEN Add(q2, "policy-id", Itoa(Deref(in.EscalationPolicyID)))
                        ELSE q2
              IN Do(Request("PUT",
                            apiRoutes.incidents \o "/" \o Itoa(Deref(in.IncidentID))
                                \o "/assign?",
                            Encode(q3), Nil),
                    200, IntoStruct(Incident, "Incident"))

AssignIncident(input) ==
    IF input = Nil THEN Fail("input is required")
    ELSE IF Deref(input).IncidentID = Nil THEN Fail("Incident id is required")
    ELSE LET in == Deref(input) IN
         IF in.UserID = Nil /\ in.Username = Nil /\ in.EscalationPolicyID = Nil
            /\ in.ScheduleID = Nil
         THEN Fail("one of assignments is required")
         ELSE LET q1 == IF in.UserID # Nil
                        THEN Add(url_Values, "user-id", Itoa(Deref(in.UserID)))
                        ELSE url_Values
                  q2 == IF in.Username # Nil
                        THEN Add(q1, "user-id", Deref(in.Username)) ELSE q1
                  q3 == IF in.EscalationPolicyID # Nil
                        THEN Add(q2, "policy-id", Itoa(Deref(in.EscalationPolicyID)))
                        ELSE q2
                  q4 == IF in.ScheduleID # Nil
                        THEN Add(q3, "schedule-id", Itoa(Deref(in.ScheduleID)))
                        ELSE q3
              IN Do(Request("PUT",
                            apiRoutes.incidents \o "/" \o Itoa(Deref(in.IncidentID))
                                \o "/assign?",
                            Encode(q4), Nil),
                    200, IntoStruct(Incident, "Incident"))

AcceptIncident(input) ==
    IF input = Nil THEN Fail("input is required")
    ELSE IF Deref(input).IncidentID = Nil THEN Fail("Incident id is required")
    ELSE Do(Request("PUT",
                    apiRoutes.incidents \o "/" \o Itoa(Deref(Deref(input).IncidentID))
                        \o "/accept",
                    <<>>, Nil),
            200, IntoStruct(Incident, "Incident"))

ResolveIncident(input) ==
    IF input = Nil THEN Fail("input is required")
    ELSE IF Deref(input).IncidentID = Nil THEN Fail("Incident id is required")
    ELSE Do(Request("PUT",
                    apiRoutes.incidents \o "/" \o Itoa(Deref(Deref(input).IncidentID))
                        \o "/resolve",
                    <<>>, Nil),
            200, IntoStruct(Incident, "Incident"))

\* as in GetIncidentResponder, the query with lng is not part of the request
GetIncidentLogEntries(input) ==
    IF input = Nil THEN Fail("input is required")
    ELSE IF Deref(input).IncidentID = Nil THEN Fail("Incident id is required")
    ELSE LET in == Deref(input)
             q == IF in.Language # Nil
                  THEN IF Deref(in.Language) = "en" THEN Add(url_Values, "lng", "en")
                       ELSE IF Deref(in.Language) = "de" THEN Add(url_Values, "lng", "de")
                       ELSE url_Values
                  ELSE url_Values
         IN Do(Request("GET",
                       apiRoutes.incidents \o "/" \o Itoa(Deref(in.IncidentID))
                           \o "/log-entries",
                       <<>>, Nil),
               200, IntoSlice(IncidentLogEntry, "LogEntries"))

GetIncidentActions(input) ==
    IF input = Nil THEN Fail("input is required")
    ELSE IF Deref(input).IncidentID = Nil THEN Fail("Incident id is required")
    ELSE Do(Request("GET",
                    apiRoutes.incidents \o "/" \o Itoa(Deref(Deref(input).IncidentID))
                        \o "/actions",
                    <<>>, Nil),
            200, IntoSlice(IncidentAction, "Actions"))

InvokeIncidentAction(input) ==
    IF input = Nil THEN Fail("input is required")
    ELSE IF Deref(input).IncidentID = Nil THEN Fail("Incident id is required")
    ELSE IF Deref(input).Action = Nil THEN Fail("action input is required")
    ELSE Do(Request("POST",
                    apiRoutes.incidents \o "/" \o Itoa(Deref(Deref(input).IncidentID))
                        \o "/actions",
                    <<>>, Deref(input).Action),
            201, IntoStruct(IncidentAction, "Action"))

(***************************************************************************)
(* Escalation policies.                                                    *)
(***************************************************************************)
CreateEscalationPolicy(input) ==
    IF input = Nil THEN Fail("input is required")
    ELSE IF Deref(input).EscalationPolicy = Nil
    THEN Fail("escalation policy input is required")
    ELSE Do(Request("POST", apiRoutes.escalationPolicies, <<>>,
                    Deref(input).EscalationPolicy),
            201, IntoStruct(EscalationPolicy, "EscalationPolicy"))

GetEscalationPolicy(input) ==
    IF input = Nil THEN Fail("input is required")
    ELSE IF Deref(input).EscalationPolicyID = Nil
    THEN Fail("EscalationPolicy id is required")
    ELSE Do(Request("GET",
                    apiRoutes.escalationPolicies \o "/"
                        \o Itoa(Deref(Deref(input).EscalationPolicyID)),
                    <<>>, Nil),
            200, IntoStruct(EscalationPolicy, "EscalationPolicy"))

GetEscalationPolicies(input) ==
    Do(Request("GET", apiRoutes.escalationPolicies, <<>>, Nil),
       200, IntoSlice(EscalationPolicy, "EscalationPolicies"))

UpdateEscalationPolicy(input) ==
    IF input = Nil THEN Fail("input is required")
    ELSE IF Deref(input).EscalationPolicy = Nil
    THEN Fail("EscalationPolicy input is required")
    ELSE IF Deref(input).EscalationPolicyID = Nil
    THEN Fail("escalation policy id is required")
    ELSE Do(Request("PUT",
                    apiRoutes.escalationPolicies \o "/"
                        \o Itoa(Deref(Deref(input).EscalationPolicyID)),
                    <<>>, Deref(input).EscalationPolicy),
            200, IntoStruct(EscalationPolicy, "EscalationPolicy"))

DeleteEscalationPolicy(input) ==
    IF input = Nil THEN Fail("input is required")
    ELSE IF Deref(input).EscalationPolicyID = Nil
    THEN Fail("EscalationPolicy id is required")
    ELSE Do(Request("DELETE",
                    apiRoutes.escalationPolicies \o "/"
                        \o Itoa(Deref(Deref(input).EscalationPolicyID)),
                    <<>>, Nil),
            204, NoResult)

(***************************************************************************)
(* Connectors.  A connector id is a string.                                *)
(***************************************************************************)
\* CreateConnector checking for 200 as the get and update operations do
CreateConnector_Expect200(input) ==
    IF input = Nil THEN Fail("input is required")
    ELSE IF Deref(input).Connector = Nil THEN Fail("Connector input is required")
    ELSE Do(Request("POST", apiRoutes.connectors, <<>>, Deref(input).Connector),
            200, IntoStruct(ConnectorOutput, "Connector"))

CreateConnector(input) ==
    IF input = Nil THEN Fail("input is required")
    ELSE IF Deref(input).Connector = Nil THEN Fail("Connector input is required")
    ELSE Do(Request("POST", apiRoutes.connectors, <<>>, Deref(input).Connector),
            201, IntoStruct(ConnectorOutput, "Connector"))

GetConnector(input) ==
    IF input = Nil THEN Fail("input is required")
    ELSE IF Deref(input).ConnectorID = Nil THEN Fail("Connector id is required")
    ELSE Do(Request("GET",
                    apiRoutes.connectors \o "/" \o Deref(Deref(input).ConnectorID),
                    <<>>, Nil),
            200, IntoStruct(ConnectorOutput, "Connector"))

GetConnectors(input) ==
    Do(Request("GET", apiRoutes.connectors, <<>>, Nil),
       200, IntoSlice(ConnectorOutput, "Connectors"))

UpdateConnector(input) ==
    IF input = Nil THEN Fail("input is required")
    ELSE IF Deref(input).Connector = Nil THEN Fail("Connector input is required")
    ELSE IF Deref(input).ConnectorID = Nil THEN Fail("Connector id is required")
    ELSE Do(Request("PUT",
                    apiRoutes.connectors \o "/" \o Deref(Deref(input).ConnectorID),
                    <<>>, Deref(input).Connector),
            200, IntoStruct(ConnectorOutput, "Connector"))

\* DeleteConnector decoding the answer as the other connector operations do
DeleteConnector_Decode(input) ==
    IF input = Nil THEN Fail("input is required")
    ELSE IF Deref(input).ConnectorID = Nil THEN Fail("Connector id is required")
    ELSE Do(Request("DELETE",
                    apiRoutes.connectors \o "/" \o Deref(Deref(input).ConnectorID),
                    <<>>, Nil),
            204, IntoStruct(ConnectorOutput, "Connector"))

DeleteConnector(input) ==
    IF input = Nil THEN Fail("input is required")
    ELSE IF Deref(input).ConnectorID = Nil THEN Fail("Connector id is required")
    ELSE Do(Request("DELETE",
                    apiRoutes.connectors \o "/" \o Deref(Deref(input).ConnectorID),
                    <<>>, Nil),
            204, NoResult)

(***************************************************************************)
(* The HTTP call c.httpClient.R()[.SetBody(b)].Get/Put/Post/Delete(url):   *)
(* resty builds a new request from the client's settings and the call's    *)
(* arguments and leaves the client as it was.  Client-level query          *)
(* parameters are added for the keys the request does not set itself.      *)
(***************************************************************************)
\* the query set on the client (SetQueryParam on c.httpClient) instead of on the
\* request: it stays on the client for the calls that follow
Send_Sticky(c, req) ==
    LET h == [c.httpClient EXCEPT !.QueryParam = req.Query]
        Unset(p) == \A i \in 1..Len(req.Query) : req.Query[i].k # p.k
    IN [ client |-> [c EXCEPT !.httpClient = h],
         wire |-> [ Method |-> req.Method,
                    URL |-> h.HostURL \o req.Path,
                    Query |-> req.Query \o SelectSeq(c.httpClient.QueryParam, Unset),
                    Header |-> h.Header,
                    UserInfo |-> h.UserInfo,
                    Body |-> req.Body ] ]

Send(c, req) ==
    LET h == c.httpClient
        Unset(p) == \A i \in 1..Len(req.Query) : req.Query[i].k # p.k
    IN [ client |-> c,
         wire |-> [ Method |-> req.Method,
                    URL |-> h.HostURL \o req.Path,
                    Query |-> req.Query \o SelectSeq(h.QueryParam, Unset),
                    Header |-> h.Header,
                    UserInfo |-> h.UserInfo,
                    Body |-> req.Body ] ]

(***************************************************************************)
(* What an operation does once its HTTP call has returned.  The outcome of *)
(* the call is [err, resp]: a transport error, or a response [StatusCode,  *)
(* Body].  The result is the operation's (output, error) pair with the     *)
(* steps the call went through.                                            *)
(***************************************************************************)
Result(out, err, steps) == [out |-> out, err |-> err, steps |-> steps]

Output(decode, v) ==
    [f \in {decode.field} |->
        CASE decode.wrap = "pointer" -> Some(v)
          [] decode.wrap = "value" -> v
          [] decode.wrap = "count" -> v.Count]

\* the transport error wrapped in a new error
Complete_WrapErr(plan, outcome) ==
    IF outcome.err # Nil
    THEN Result(Nil, Some(fmt_Errorf("request failed: " \o Deref(outcome.err).s)),
                <<"validate", "http">>)
    ELSE LET resp == Deref(outcome.resp)
             apiErr == getGenericAPIError(resp, plan.expected)
         IN IF apiErr # Nil
            THEN Result(Nil, apiErr, <<"validate", "http", "status">>)
            ELSE IF plan.decode = Nil
            THEN Result(Some(<<>>), Nil, <<"validate", "http", "status">>)
            ELSE LET decode == Deref(plan.decode)
                     d == Unmarshal(resp.Body, decode.T, decode.cur)
                 IN IF d.e # Nil
                    THEN Result(Nil, d.e, <<"validate", "http", "status", "decode">>)
                    ELSE Result(Some(Output(decode, d.v)), Nil,
                                <<"validate", "http", "status", "decode">>)

\* the body never unmarshalled: the output holds the value the target started with
Complete_NoDecode(plan, outcome) ==
    IF outcome.err # Nil
    THEN Result(Nil, outcome.err, <<"validate", "http">>)
    ELSE LET resp == Deref(outcome.resp)
             apiErr == getGenericAPIError(resp, plan.expected)
         IN IF apiErr # Nil
            THEN Result(Nil, apiErr, <<"validate", "http", "status">>)
            ELSE IF plan.decode = Nil
            THEN Result(Some(<<>>), Nil, <<"validate", "http", "status">>)
            ELSE LET decode == Deref(plan.decode)
                 IN Result(Some(Output(decode, decode.cur)), Nil,
                           <<"validate", "http", "status">>)

\* the body unmarshalled right after the HTTP call, the status checked afterwards
Complete_DecodeFirst(plan, outcome) ==
    IF outcome.err # Nil
    THEN Result(Nil, outcome.err, <<"validate", "http">>)
    ELSE IF plan.decode = Nil
    THEN LET apiErr == getGenericAPIError(Deref(outcome.resp), plan.expected)
         IN Result(IF apiErr # Nil THEN Nil ELSE Some(<<>>), apiErr,
                   <<"validate", "http", "status">>)
    ELSE LET resp == Deref(outcome.resp)
             decode == Deref(plan.decode)
             d == Unmarshal(resp.Body, decode.T, decode.cur)
             apiErr == getGenericAPIError(resp, plan.expected)
         IN IF d.e # Nil
            THEN Result(Nil, d.e, <<"validate", "http", "decode">>)
            ELSE IF apiErr # Nil
            THEN Result(Nil, apiErr, <<"validate", "http", "decode", "status">>)
            ELSE Result(Some(Output(decode, d.v)), Nil,
                        <<"validate", "http", "decode", "status">>)

\* what was decoded before the decode error is returned along with the error
Complete_PartialOutput(plan, outcome) ==
    IF outcome.err # Nil
    THEN Result(Nil, outcome.err, <<"validate", "http">>)
    ELSE LET resp == Deref(outcome.resp)
             apiErr == getGenericAPIError(resp, plan.expected)
         IN IF apiErr # Nil
            THEN Result(Nil, apiErr, <<"validate", "http", "status">>)
            ELSE IF plan.decode = Nil
            THEN Result(Some(<<>>), Nil, <<"validate", "http", "status">>)
            ELSE LET decode == Deref(plan.decode)
                     d == Unmarshal(resp.Body, decode.T, decode.cur)
                 IN Result(Some(Output(decode, d.v)), d.e,
                           <<"validate", "http", "status", "decode">>)

Complete(plan, outcome) ==
    IF outcome.err # Nil
    THEN Result(Nil, outcome.err, <<"validate", "http">>)
    ELSE LET resp == Deref(outcome.resp)
             apiErr == getGenericAPIError(resp, plan.expected)
         IN IF apiErr # Nil
            THEN Result(Nil, apiErr, <<"validate", "http", "status">>)
            ELSE IF plan.decode = Nil
            THEN Result(Some(<<>>), Nil, <<"validate", "http", "status">>)
            ELSE LET decode == Deref(plan.decode)
                     d == Unmarshal(resp.Body, decode.T, decode.cur)
                 IN IF d.e # Nil
                    THEN Result(Nil, d.e, <<"validate", "http", "status", "decode">>)
                    ELSE Result(Some(Output(decode, d.v)), Nil,
                                <<"validate", "http", "status", "decode">>)

(***************************************************************************)
(* The operations by name.                                                 *)
(***************************************************************************)
Operations ==
    { "GetIncident", "GetIncidents", "GetIncidentsCount", "GetIncidentResponder",
      "AssignIncident", "AcceptIncident", "ResolveIncident", "GetIncidentLogEntries",
      "GetIncidentActions", "InvokeIncidentAction",
      "CreateEscalationPolicy", "GetEscalationPolicy", "GetEscalationPolicies",
      "UpdateEscalationPolicy", "DeleteEscalationPolicy",
      "CreateConnector", "GetConnector", "GetConnectors", "UpdateConnector",
      "DeleteConnector" }

Operation(op, input) ==
    CASE op = "GetIncident" -> GetIncident(input)
      [] op = "GetIncidents" -> GetIncidents(input)
      [] op = "GetIncidentsCount" -> GetIncidentsCount(input)
      [] op = "GetIncidentResponder" -> GetIncidentResponder(input)
      [] op = "AssignIncident" -> AssignIncident(input)
      [] op = "AcceptIncident" -> AcceptIncident(input)
      [] op = "ResolveIncident" -> ResolveIncident(input)
      [] op = "GetIncidentLogEntries" -> GetIncidentLogEntries(input)
      [] op = "GetIncidentActions" -> GetIncidentActions(input)
      [] op = "InvokeIncidentAction" -> InvokeIncidentAction(input)
      [] op = "CreateEscalationPolicy" -> CreateEscalationPolicy(input)
      [] op = "GetEscalationPolicy" -> GetEscalationPolicy(input)
      [] op = "GetEscalationPolicies" -> GetEscalationPolicies(input)
      [] op = "UpdateEscalationPolicy" -> UpdateEscalationPolicy(input)
      [] op = "DeleteEscalationPolicy" -> DeleteEscalationPolicy(input)
      [] op = "CreateConnector" -> CreateConnector(input)
      [] op = "GetConnector" -> GetConnector(input)
      [] op = "GetConnectors" -> GetConnectors(input)
      [] op = "UpdateConnector" -> UpdateConnector(input)
      [] op = "DeleteConnector" -> DeleteConnector(input)

(***************************************************************************)
(* The inputs callers pass, within the bounds.                             *)
(***************************************************************************)
IDs == 1..MaxID
PtrIDs == {Nil} \cup { Some(i) : i \in IDs }
PtrConnectorIDs == {Nil} \cup { Some("c" \o Itoa(i)) : i \in IDs }
Lists(S) == UNION { [1..n -> S] : n \in 0..MaxListLen }
NonEmpty(L) == L \ {<<>>}

anEscalationPolicy == [Zero(EscalationPolicy) EXCEPT !.Name = "ops"]
aConnector ==
    [Zero(Connector) EXCEPT !.Name = "dd", !.Type = "datadog",
                            !.Params = Some(Dyn(ConnectorParamsDatadog,
                                                [APIKey |-> "key"]))]
anIncidentAction == [Zero(IncidentAction) EXCEPT !.Name = "restart"]

NoLists ==
    [ States |-> <<>>, AlertSources |-> <<>>, AssignedToUserIDs |-> <<>>,
      AssignedToUserNames |-> <<>> ]

\* the four list filters, at most one of them in use
ListFilters ==
    {NoLists}
    \cup { [NoLists EXCEPT !.States = l] :
             l \in NonEmpty(Lists({Nil, Some("NEW")})) }
    \cup { [NoLists EXCEPT !.AlertSources = l] : l \in NonEmpty(Lists({Nil, Some(7)})) }
    \cup { [NoLists EXCEPT !.AssignedToUserIDs = l] :
             l \in NonEmpty(Lists({Nil, Some(12)})) }
    \cup { [NoLists EXCEPT !.AssignedToUserNames = l] :
             l \in NonEmpty(Lists({Nil, Some("bob")})) }

Froms == {Nil, Some("2020-01-01")}
Untils == {Nil, Some("2020-12-31")}

GetIncidentsInputs ==
    {Nil} \cup
    { Some([ StartIndex |-> si, MaxResults |-> mr, States |-> l.States,
             AlertSources |-> l.AlertSources,
             AssignedToUserIDs |-> l.AssignedToUserIDs,
             AssignedToUserNames |-> l.AssignedToUserNames,
             From |-> f, Until |-> u ]) :
        si \in {Nil, Some(0)}, mr \in {Nil, Some(50)}, l \in ListFilters,
        f \in Froms, u \in Untils }

GetIncidentsCountInputs ==
    {Nil} \cup
    { Some([ States |-> l.States, AlertSources |-> l.AlertSources,
             AssignedToUserIDs |-> l.AssignedToUserIDs,
             AssignedToUserNames |-> l.AssignedToUserNames,
             From |-> f, Until |-> u ]) :
        l \in ListFilters, f \in Froms, u \in Untils }

Inputs(op) ==
    CASE op \in {"GetIncident", "AcceptIncident", "ResolveIncident", "GetIncidentActions"} ->
            {Nil} \cup { Some([IncidentID |-> i]) : i \in PtrIDs }
      [] op = "GetIncidents" -> GetIncidentsInputs
      [] op = "GetIncidentsCount" -> GetIncidentsCountInputs
      [] op \in {"GetIncidentResponder", "GetIncidentLogEntries"} ->
            {Nil} \cup { Some([IncidentID |-> i, Language |-> l]) :
                           i \in PtrIDs, l \in {Nil, Some("en"), Some("de"), Some("fr")} }
      [] op = "AssignIncident" ->
            {Nil} \cup { Some([ IncidentID |-> i, UserID |-> u, Username |-> n,
                                EscalationPolicyID |-> e, ScheduleID |-> s ]) :
                           i \in PtrIDs, u \in PtrIDs, n \in {Nil, Some("bob")},
                           e \in PtrIDs, s \in PtrIDs }
      [] op = "InvokeIncidentAction" ->
            {Nil} \cup { Some([IncidentID |-> i, Action |-> a]) :
                           i \in PtrIDs, a \in {Nil, Some(anIncidentAction)} }
      [] op = "CreateEscalationPolicy" ->
            {Nil} \cup { Some([EscalationPolicy |-> b]) :
                           b \in {Nil, Some(anEscalationPolicy)} }
      [] op \in {"GetEscalationPolicy", "DeleteEscalationPolicy"} ->
            {Nil} \cup { Some([EscalationPolicyID |-> i]) : i \in PtrIDs }
      [] op \in {"GetEscalationPolicies", "GetConnectors"} -> {Nil, Some(<<>>)}
      [] op = "UpdateEscalationPolicy" ->
            {Nil} \cup { Some([EscalationPolicyID |-> i, EscalationPolicy |-> b]) :
                           i \in PtrIDs, b \in {Nil, Some(anEscalationPolicy)} }
      [] op = "CreateConnector" ->
            {Nil} \cup { Some([Connector |-> b]) : b \in {Nil, Some(aConnector)} }
      [] op \in {"GetConnector", "DeleteConnector"} ->
            {Nil} \cup { Some([ConnectorID |-> i]) : i \in PtrConnectorIDs }
      [] op = "UpdateConnector" ->
            {Nil} \cup { Some([ConnectorID |-> i, Connector |-> b]) :
                           i \in PtrConnectorIDs, b \in {Nil, Some(aConnector)} }

(***************************************************************************)
(* What the server and the transport may answer.                           *)
(***************************************************************************)
Statuses == {200, 201, 204, 404}

anEnvelope ==
    JObj([status |-> JNum(404), message |-> JStr("Not found"), code |-> JStr("NOT_FOUND")])
anEnvelopeWithoutMessage == JObj([message |-> JStr(""), code |-> JStr("E")])
aMistypedEnvelope == JObj([status |-> JStr("oops"), message |-> JStr("m")])
anIncidentBody ==
    JObj([id |-> JNum(1), summary |-> JStr("disk full"), status |-> JStr("NEW")])
aConnectorBody ==
    JObj([id |-> JStr("c1"), name |-> JStr("dd"), params |-> JObj([apiKey |-> JStr("key")])])
aCountBody == JObj([count |-> JNum(3)])

Bodies ==
    { JBad, JEmpty, JNull, JObj(<<>>), anEnvelope, anEnvelopeWithoutMessage,
      aMistypedEnvelope, anIncidentBody, aConnectorBody, aCountBody,
      JArr(<<>>), JArr(<<anIncidentBody>>) }

Response(status, body) == [StatusCode |-> status, Body |-> body]

(***************************************************************************)
(* The state.                                                              *)
(*   client   the client NewClient returned, shared by all callers         *)
(*   created  the value of client when NewClient returned (never changes)  *)
(*   pc[p]    where caller p is: "idle", "waiting" (inside the HTTP call), *)
(*            "done" (the operation has returned), "panicked" (it faulted) *)
(*   call[p]  the operation and input of p's current call                  *)
(*   wire[p]  the HTTP requests sent for p's current call, in order        *)
(*   net[p]   the outcome of p's HTTP call                                 *)
(*   ret[p]   what the operation returned to p                             *)
(*   check    an application of one function on its own: of                *)
(*            catchGenericAPIError (specification SpecCatch), of NewClient *)
(*            (SpecNew), of json.Marshal followed by json.Unmarshal        *)
(*            (SpecRound)                                                  *)
(***************************************************************************)
Env(token, organization, username, password, endpoint) ==
    [k \in EnvKeys |->
        CASE k = "ILERT_API_TOKEN" -> token
          [] k = "ILERT_ORGANIZATION" -> organization
          [] k = "ILERT_USERNAME" -> username
          [] k = "ILERT_PASSWORD" -> password
          [] k = "ILERT_ENDPOINT" -> endpoint]

Option(name, args) == [name |-> name, a |-> args]

\* the environments and options the modelled programs create their client with
Deployments ==
    { [env |-> Env(Some("tok"), Nil, Nil, Nil, Nil), options |-> <<>>],
      [env |-> Env(Nil, Some("org"), Some("bob"), Some("pw"),
                   Some("https://eu.ilert.com")),
       options |-> <<Option("WithUserAgent", <<"agent">>)>>] }

InitCallers(callers, deployments) ==
    /\ \E d \in deployments :
          /\ client = NewClient(d.env, d.options)
          /\ created = client
    /\ pc = [p \in callers |-> "idle"]
    /\ call = [p \in callers |-> Nil]
    /\ wire = [p \in callers |-> <<>>]
    /\ net = [p \in callers |-> Nil]
    /\ ret = [p \in callers |-> Nil]

Init ==
    /\ InitCallers({1}, Deployments)
    /\ check = Nil

\* caller p calls operation op with input: the operation runs up to its HTTP call
Call(p, op, input) ==
    /\ pc[p] = "idle"
    /\ call' = [call EXCEPT ![p] = Some([op |-> op, input |-> input])]
    /\ LET plan == Operation(op, input) IN
       CASE plan.kind = "fail" ->
              /\ pc' = [pc EXCEPT ![p] = "done"]
              /\ ret' = [ret EXCEPT ![p] = Some(Result(Nil, Some(plan.err), <<"validate">>))]
              /\ UNCHANGED <<client, wire>>
         [] plan.kind = "panic" ->
              /\ pc' = [pc EXCEPT ![p] = "panicked"]
              /\ UNCHANGED <<client, wire, ret>>
         [] plan.kind = "send" ->
              LET s == Send(client, plan.req) IN
              /\ pc' = [pc EXCEPT ![p] = "waiting"]
              /\ client' = s.client
              /\ wire' = [wire EXCEPT ![p] = <<s.wire>>]
              /\ UNCHANGED ret
    /\ UNCHANGED <<created, net, check>>

\* the transport fails with error e: resty sends the request again while it has
\* retries left, and otherwise the call returns e to the operation
TransportFails(p, e) ==
    /\ pc[p] = "waiting"
    /\ LET c == Deref(call[p])
           plan == Operation(c.op, c.input)
           outcome == [err |-> Some(e), resp |-> Nil]
       IN IF Len(wire[p]) <= client.httpClient.RetryCount
          THEN /\ wire' = [wire EXCEPT ![p] = Append(@, Send(client, plan.req).wire)]
               /\ UNCHANGED <<pc, net, ret>>
          ELSE /\ net' = [net EXCEPT ![p] = Some(outcome)]
               /\ ret' = [ret EXCEPT ![p] = Some(Complete(plan, outcome))]
               /\ pc' = [pc EXCEPT ![p] = "done"]
               /\ UNCHANGED wire
    /\ UNCHANGED <<client, created, call, check>>

\* the server answers with a status code and a body: the operation runs to its end
Responds(p, status, body) ==
    /\ pc[p] = "waiting"
    /\ LET c == Deref(call[p])
           plan == Operation(c.op, c.input)
           outcome == [err |-> Nil, resp |-> Some(Response(status, body))]
       IN /\ net' = [net EXCEPT ![p] = Some(outcome)]
          /\ ret' = [ret EXCEPT ![p] = Some(Complete(plan, outcome))]
          /\ pc' = [pc EXCEPT ![p] = "done"]
    /\ UNCHANGED <<client, created, call, wire, check>>

\* the caller takes the result (or recovers from the fault) and is free to call again
Return(p) ==
    /\ pc[p] \in {"done", "panicked"}
    /\ pc' = [pc EXCEPT ![p] = "idle"]
    /\ call' = [call EXCEPT ![p] = Nil]
    /\ wire' = [wire EXCEPT ![p] = <<>>]
    /\ net' = [net EXCEPT ![p] = Nil]
    /\ ret' = [ret EXCEPT ![p] = Nil]
    /\ UNCHANGED <<client, created, check>>

Next ==
    \/ \E p \in DOMAIN pc, op \in Operations : \E input \in Inputs(op) : Call(p, op, input)
    \/ \E p \in DOMAIN pc, e \in TransportErrors : TransportFails(p, e)
    \/ \E p \in DOMAIN pc, status \in Statuses, body \in Bodies : Responds(p, status, body)
    \/ \E p \in DOMAIN pc : Return(p)

Spec == Init /\ [][Next]_vars

(***************************************************************************)
(* SpecCatch: catchGenericAPIError applied to every response and every     *)
(* list of expected status codes within the bounds.                        *)
(***************************************************************************)
ExpectedLists == UNION { [1..n -> Statuses] : n \in 0..MaxExpected }

InitCatch ==
    /\ InitCallers({1}, Deployments)
    /\ check \in { [stage |-> "in", response |-> Response(status, body),
                    expected |-> x, err |-> Nil] :
                     status \in Statuses, body \in Bodies, x \in ExpectedLists }

Catch ==
    /\ check.stage = "in"
    /\ check' = [check EXCEPT !.stage = "out",
                              !.err = catchGenericAPIError(check.response, check.expected)]
    /\ UNCHANGED <<client, created, pc, call, wire, net, ret>>

NextCatch == Catch

SpecCatch == InitCatch /\ [][NextCatch]_vars

(***************************************************************************)
(* SpecNew: NewClient on its own, for every environment in which each      *)
(* variable is unset, empty or set to a value, and every sequence of at    *)
(* most MaxOptions options.                                                *)
(***************************************************************************)
EnvValue ==
    [k \in EnvKeys |->
        CASE k = "ILERT_API_TOKEN" -> "tok"
          [] k = "ILERT_ORGANIZATION" -> "org"
          [] k = "ILERT_USERNAME" -> "bob"
          [] k = "ILERT_PASSWORD" -> "pw"
          [] k = "ILERT_ENDPOINT" -> "https://eu.ilert.com"]

Environments ==
    { env \in [EnvKeys -> {Nil, Some("")} \cup { Some(EnvValue[k]) : k \in EnvKeys }] :
        \A k \in EnvKeys : env[k] \in {Nil, Some(""), Some(EnvValue[k])} }

Options ==
    { Option("WithBasicAuth", <<"org2", "amy", "pw2">>),
      Option("WithAPIToken", <<"tok2">>),
      Option("WithAPIEndpoint", <<"https://my.ilert.com">>),
      Option("WithAPIEndpoint", <<"https://my.ilert.com/">>),
      Option("WithUserAgent", <<"agent">>) }

OptionLists == UNION { [1..n -> Options] : n \in 0..MaxOptions }

InitNew ==
    /\ InitCallers({1}, Deployments)
    /\ check \in { [stage |-> "in", env |-> env, options |-> options, c |-> Nil] :
                     env \in Environments, options \in OptionLists }

New ==
    /\ check.stage = "in"
    /\ check' = [check EXCEPT !.stage = "out",
                              !.c = Some(NewClient(check.env, check.options))]
    /\ UNCHANGED <<client, created, pc, call, wire, net, ret>>

NextNew == New

SpecNew == InitNew /\ [][NextNew]_vars

(***************************************************************************)
(* SpecRound: a value of a resource type is encoded with json.Marshal and  *)
(* the result decoded with json.Unmarshal into a new value of the type.    *)
(* The values are the zero value of the type and every value that differs  *)
(* from it in one field, the field taking every value of its own type      *)
(* built the same way (lists of at most MaxListLen elements).              *)
(***************************************************************************)
ResourceTypes ==
    { "Incident", "IncidentImage", "IncidentLink", "CallRoutingNumber",
      "EscalationPolicy", "EscalationRule", "Connector" }

ResourceType(name) ==
    CASE name = "Incident" -> Incident
      [] name = "IncidentImage" -> IncidentImage
      [] name = "IncidentLink" -> IncidentLink
      [] name = "CallRoutingNumber" -> CallRoutingNumber
      [] name = "EscalationPolicy" -> EscalationPolicy
      [] name = "EscalationRule" -> EscalationRule
      [] name = "Connector" -> Connector

RECURSIVE Values(_)
Values(T) ==
    CASE T.k = "int" -> {0, 1}
      [] T.k = "string" -> {"", "a", InvalidUTF8}
      [] T.k = "bool" -> BOOLEAN
      [] T.k = "ptr" -> {Nil} \cup { Some(v) : v \in Values(T.elem) }
      [] T.k = "slice" -> {Nil} \cup { Some(l) : l \in Lists(Values(T.elem)) }
      [] T.k = "map" ->
            { Nil, Some([k \in {} |-> JNull]), Some([k |-> JStr("v")]),
              Some([k |-> Dyn(TInt, 1)]) }
      [] T.k = "interface" ->
            { Nil, Some(JStr("v")), Some(JObj([apiKey |-> JStr("key")])),
              Some(Dyn(ConnectorParamsDatadog, [APIKey |-> "key"])),
              Some(Dyn(TInt, 1)) }
      [] T.k = "struct" ->
            {Zero(T)} \cup
            UNION { { [Zero(T) EXCEPT ![T.fields[i].name] = x] :
                        x \in Values(T.fields[i].type) } :
                    i \in 1..Len(T.fields) }

InitRound ==
    /\ InitCallers({1}, Deployments)
    /\ \E name \in ResourceTypes : \E v \in Values(ResourceType(name)) :
          check = [stage |-> "value", type |-> name, v |-> v, json |-> Nil, back |-> Nil]

DoMarshal ==
    /\ check.stage = "value"
    /\ check' = [check EXCEPT !.stage = "encoded",
                              !.json = Some(Marshal(check.v, ResourceType(check.type)))]
    /\ UNCHANGED <<client, created, pc, call, wire, net, ret>>

DoUnmarshal ==
    /\ check.stage = "encoded"
    /\ LET T == ResourceType(check.type)
       IN check' = [check EXCEPT !.stage = "decoded",
                                 !.back = Some(Unmarshal(Deref(check.json), T, Zero(T)))]
    /\ UNCHANGED <<client, created, pc, call, wire, net, ret>>

NextRound ==
    \/ DoMarshal
    \/ DoUnmarshal

SpecRound == InitRound /\ [][NextRound]_vars

(***************************************************************************)
(* SpecConc: NumCallers callers use one client at the same time, their     *)
(* calls interleaved in every way.  Two operations with distinguishable    *)
(* requests and results are enough to show a call picking up another's.    *)
(***************************************************************************)
ConcOperations == {"GetIncidents", "UpdateEscalationPolicy"}

ConcInputs(op) ==
    CASE op = "GetIncidents" ->
            { Nil,
              Some([GetIncidentsInputZero EXCEPT !.From = Some("2020-01-01")]),
              Some([GetIncidentsInputZero EXCEPT !.States = <<Some("NEW")>>]) }
      [] op = "UpdateEscalationPolicy" ->
            { Some([EscalationPolicyID |-> i, EscalationPolicy |-> Some(anEscalationPolicy)]) :
                i \in PtrIDs }

ConcResponses ==
    { Response(200, anIncidentBody), Response(200, JArr(<<anIncidentBody>>)),
      Response(404, anEnvelope) }

ConcTransportErrors == { [kind |-> "url.Error", s |-> "timeout"] }

InitConc ==
    /\ InitCallers(1..NumCallers, Deployments)
    /\ check = Nil

NextConc ==
    \/ \E p \in DOMAIN pc, op \in ConcOperations : \E input \in ConcInputs(op) :
          Call(p, op, input)
    \/ \E p \in DOMAIN pc, e \in ConcTransportErrors : TransportFails(p, e)
    \/ \E p \in DOMAIN pc, r \in ConcResponses : Responds(p, r.StatusCode, r.Body)
    \/ \E p \in DOMAIN pc : Return(p)

SpecConc == InitConc /\ [][NextConc]_vars

(***************************************************************************)
(* Helpers of the properties below.                                        *)
(***************************************************************************)
Callers == DOMAIN pc
OpOf(p) == Deref(call[p]).op
InputOf(p) == Deref(call[p]).input
PlanOf(p) == Operation(OpOf(p), InputOf(p))
RetOf(p) == Deref(ret[p])
NetOf(p) == Deref(net[p])
Answered(p) == pc[p] = "done" /\ net[p] # Nil /\ NetOf(p).resp # Nil
RespOf(p) == Deref(NetOf(p).resp)
ErrText(e) == Deref(e).s

(***************************************************************************)
(* C1.  Required ids.                                                      *)
(***************************************************************************)
IncidentIDOperations ==
    { "GetIncident", "GetIncidentResponder", "AssignIncident", "AcceptIncident",
      "ResolveIncident", "GetIncidentLogEntries", "GetIncidentActions",
      "InvokeIncidentAction" }
EscalationPolicyIDOperations ==
    { "GetEscalationPolicy", "UpdateEscalationPolicy", "DeleteEscalationPolicy" }
ConnectorIDOperations == { "GetConnector", "UpdateConnector", "DeleteConnector" }
IDOperations ==
    IncidentIDOperations \cup EscalationPolicyIDOperations \cup ConnectorIDOperations

IDField(op) ==
    CASE op \in IncidentIDOperations -> "IncidentID"
      [] op \in EscalationPolicyIDOperations -> "EscalationPolicyID"
      [] op \in ConnectorIDOperations -> "ConnectorID"

NilID(p) == InputOf(p) = Nil \/ Deref(InputOf(p))[IDField(OpOf(p))] = Nil

\* C1: a call of an operation that takes a resource id, made with a nil input or
\* a nil id, has returned a nil output and a non-nil error, and has sent no
\* HTTP request.
C1_NilIDRejected ==
    \A p \in Callers :
        (call[p] # Nil /\ OpOf(p) \in IDOperations /\ NilID(p))
        => /\ pc[p] = "done"
           /\ RetOf(p).out = Nil
           /\ RetOf(p).err # Nil
           /\ wire[p] = <<>>

\* UpdateConnector called with a connector but no id has returned its error
C1_Witness ==
    \E p \in Callers :
        /\ pc[p] = "done"
        /\ OpOf(p) = "UpdateConnector"
        /\ InputOf(p) # Nil
        /\ Deref(InputOf(p)).Connector # Nil
        /\ Deref(InputOf(p)).ConnectorID = Nil
        /\ RetOf(p).out = Nil
        /\ ErrText(RetOf(p).err) = "Connector id is required"
        /\ wire[p] = <<>>

(***************************************************************************)
(* C2 - C4.  catchGenericAPIError (specification SpecCatch).               *)
(***************************************************************************)
Checked == check.stage = "out"
Expected == { check.expected[i] : i \in 1..Len(check.expected) }
Mismatch == check.response.StatusCode \notin Expected
Envelope == Unmarshal(check.response.Body, GenericErrorResponse, Zero(GenericErrorResponse))

WrongStatusCode(n) ==
    CASE n = 200 -> "Wrong status code 200"
      [] n = 201 -> "Wrong status code 201"
      [] n = 204 -> "Wrong status code 204"
      [] n = 404 -> "Wrong status code 404"

\* C2: catchGenericAPIError returns nil exactly when the status code is one of
\* the expected codes, whatever the body is.
C2_NilIffExpected ==
    Checked => (check.err = Nil <=> check.response.StatusCode \in Expected)

\* nil is returned for a status that is the second of two expected codes, with a
\* body that would decode as an error envelope
C2_Witness ==
    /\ Checked
    /\ Len(check.expected) = 2
    /\ check.expected[1] # check.response.StatusCode
    /\ check.expected[2] = check.response.StatusCode
    /\ check.response.Body = anEnvelope
    /\ check.err = Nil

\* C3 as claimed: on a status outside the expected codes, whenever the body
\* decodes as an error envelope the error is "<code>: <message>".
C3_EveryDecodableEnvelope ==
    (Checked /\ Mismatch /\ Envelope.e = Nil)
    => check.err = Some(fmt_Errorf(Envelope.v.Code \o ": " \o Envelope.v.Message))

\* C3 as amended: on a status outside the expected codes, a body that decodes as
\* an error envelope with a non-empty message gives the error
\* "<code>: <message>"; one that decodes with an empty message gives the generic
\* status-code error.
C3_EnvelopeWithMessage ==
    (Checked /\ Mismatch /\ Envelope.e = Nil)
    => IF Envelope.v.Message # ""
       THEN check.err = Some(fmt_Errorf(Envelope.v.Code \o ": " \o Envelope.v.Message))
       ELSE ErrText(check.err) = WrongStatusCode(check.response.StatusCode)

\* the envelope {status: 404, message: "Not found", code: "NOT_FOUND"} on an
\* unexpected 404
C3_Witness ==
    /\ Checked
    /\ check.response = Response(404, anEnvelope)
    /\ check.expected = <<200>>
    /\ ErrText(check.err) = "NOT_FOUND: Not found"

\* C4: on a status outside the expected codes an error is returned in every
\* case, and when the body does not decode as an error envelope it is the error
\* "Wrong status code <N>" with N the response's status code.
C4_GenericFallback ==
    (Checked /\ Mismatch)
    => /\ check.err # Nil
       /\ Envelope.e # Nil
          => ErrText(check.err) = WrongStatusCode(check.response.StatusCode)

\* an object whose status is a string does not decode, though its message does
C4_Witness ==
    /\ Checked
    /\ check.response = Response(404, aMistypedEnvelope)
    /\ check.expected = <<200, 201>>
    /\ Envelope.e # Nil
    /\ Envelope.v.Message = "m"
    /\ ErrText(check.err) = "Wrong status code 404"

(***************************************************************************)
(* C5.  Transport failures.                                                *)
(***************************************************************************)
TransportFailed(p) == pc[p] = "done" /\ net[p] # Nil /\ NetOf(p).err # Nil

\* C5: when the HTTP call fails, the operation returns a nil output and the very
\* error the call returned, and neither checks a status nor decodes a body.
C5_TransportErrorAsIs ==
    \A p \in Callers :
        TransportFailed(p)
        => /\ RetOf(p).out = Nil
           /\ RetOf(p).err = NetOf(p).err
           /\ \A i \in 1..Len(RetOf(p).steps) :
                 RetOf(p).steps[i] \notin {"status", "decode"}

\* DeleteConnector has returned the transport's timeout error
C5_Witness ==
    \E p \in Callers :
        /\ TransportFailed(p)
        /\ OpOf(p) = "DeleteConnector"
        /\ RetOf(p).out = Nil
        /\ RetOf(p).err = Some([kind |-> "url.Error", s |-> "timeout"])

(***************************************************************************)
(* C6.  Successful calls.                                                  *)
(***************************************************************************)
\* the body of p's response decoded into the result type of p's operation
Decoded(p) ==
    LET decode == Deref(PlanOf(p).decode)
    IN Unmarshal(RespOf(p).Body, decode.T, decode.cur)

ResultField(p) == Deref(RetOf(p).out)[Deref(PlanOf(p).decode).field]

\* C6: when the status is the one the operation expects and the body is valid
\* JSON for the operation's result type, the operation returns a nil error and a
\* non-nil output whose result field holds the value decoded from the body.
C6_SuccessDecodesBody ==
    \A p \in Callers :
        ( /\ Answered(p)
          /\ RespOf(p).StatusCode = PlanOf(p).expected
          /\ PlanOf(p).decode # Nil
          /\ Decoded(p).e = Nil )
        => /\ RetOf(p).err = Nil
           /\ RetOf(p).out # Nil
           /\ LET wrap == Deref(PlanOf(p).decode).wrap IN
              CASE wrap = "pointer" -> ResultField(p) = Some(Decoded(p).v)
                [] wrap = "value" -> ResultField(p) = Decoded(p).v
                [] wrap = "count" -> ResultField(p) = Decoded(p).v.Count

\* GetIncident has returned the incident {id: 1, summary: "disk full", status: "NEW"}
C6_Witness ==
    \E p \in Callers :
        /\ Answered(p)
        /\ OpOf(p) = "GetIncident"
        /\ RespOf(p) = Response(200, anIncidentBody)
        /\ RetOf(p).err = Nil
        /\ RetOf(p).out # Nil
        /\ Deref(Deref(RetOf(p).out).Incident).ID = 1
        /\ Deref(Deref(RetOf(p).out).Incident).Summary = "disk full"
        /\ Deref(Deref(RetOf(p).out).Incident).Status = "NEW"

(***************************************************************************)
(* C7.  The status each kind of operation expects.                         *)
(***************************************************************************)
CreateOperations == {"CreateEscalationPolicy", "CreateConnector", "InvokeIncidentAction"}
DeleteOperations == {"DeleteEscalationPolicy", "DeleteConnector"}

KindStatus(op) ==
    CASE op \in CreateOperations -> 201
      [] op \in DeleteOperations -> 204
      [] OTHER -> 200

JSONErrors == {"json.SyntaxError", "json.UnmarshalTypeError"}

\* C7: a create operation accepts only 201, a delete operation only 204, every
\* other operation only 200: any other status gives an error and a nil output,
\* and the accepted status passes the check (an error, if any, is a decode error).
C7_ExpectedStatusByKind ==
    \A p \in Callers :
        Answered(p)
        => IF RespOf(p).StatusCode = KindStatus(OpOf(p))
           THEN RetOf(p).err = Nil \/ Deref(RetOf(p).err).kind \in JSONErrors
           ELSE RetOf(p).out = Nil /\ RetOf(p).err # Nil
                /\ Deref(RetOf(p).err).kind \notin JSONErrors

\* CreateConnector answered 200 with a well-formed connector has returned an error
C7_Witness ==
    \E p \in Callers :
        /\ Answered(p)
        /\ OpOf(p) = "CreateConnector"
        /\ RespOf(p) = Response(200, aConnectorBody)
        /\ RetOf(p).out = Nil
        /\ ErrText(RetOf(p).err) = "Wrong status code 200"

(***************************************************************************)
(* C8.  The client configuration.                                          *)
(***************************************************************************)
\* C8: whatever operations have been called and however they ended, the client
\* (endpoint, headers, credentials, every setting of its HTTP client) is as
\* NewClient returned it.
C8_ClientUnchanged == client = created

\* AssignIncident has succeeded on the client made from ILERT_ENDPOINT and the
\* basic-auth variables, and the client still holds those settings
C8_Witness ==
    \E p \in Callers :
        /\ pc[p] = "done"
        /\ OpOf(p) = "AssignIncident"
        /\ RetOf(p).err = Nil
        /\ client.httpClient.HostURL = "https://eu.ilert.com"
        /\ client.httpClient.UserInfo = Some([Username |-> "bob@org", Password |-> "pw"])
        /\ client.httpClient.Header["User-Agent"] = "agent"
        /\ client.httpClient.Timeout = apiTimeoutMs

(***************************************************************************)
(* C9.  Concurrent callers (specification SpecConc).                       *)
(***************************************************************************)
\* C9: under every interleaving, the request of a call (URL path, query, body)
\* is the one built from that call's input, and what a call returned is what
\* its operation makes of its own input and its own HTTP outcome.
C9_CallsIndependent ==
    \A p \in Callers :
        call[p] # Nil
        => LET plan == PlanOf(p) IN
           /\ plan.kind = "send"
              => /\ Len(wire[p]) = 1
                 /\ wire[p][1].URL = created.httpClient.HostURL \o plan.req.Path
                 /\ wire[p][1].Query = plan.req.Query
                 /\ wire[p][1].Body = plan.req.Body
           /\ pc[p] = "done"
              => ret[p] = Some(IF plan.kind = "fail"
                               THEN Result(Nil, Some(plan.err), <<"validate">>)
                               ELSE Complete(plan, NetOf(p)))

\* two callers have finished different operations at the same time, each with
\* its own request and its own result
C9_Witness ==
    /\ pc[1] = "done" /\ pc[2] = "done"
    /\ OpOf(1) = "GetIncidents" /\ OpOf(2) = "UpdateEscalationPolicy"
    /\ Len(wire[1]) = 1 /\ Len(wire[2]) = 1
    /\ wire[1][1].Query = <<[k |-> "from", v |-> "2020-01-01"]>>
    /\ wire[2][1].Query = <<>>
    /\ wire[2][1].Body = Some(anEscalationPolicy)
    /\ RetOf(1).err = Nil /\ RetOf(2).err = Nil
    /\ Len(Deref(Deref(RetOf(1).out).Incidents)) = 1
    /\ Deref(Deref(RetOf(2).out).EscalationPolicy).ID = 1

(***************************************************************************)
(* C10.  One request per call.                                             *)
(***************************************************************************)
\* C10: a call sends at most one HTTP request: none when the validation of its
\* input fails, exactly one when it passes, and none again after a transport
\* failure, an unexpected status or a decode failure.
C10_OneRequestPerCall ==
    \A p \in Callers :
        call[p] # Nil
        => /\ Len(wire[p]) <= 1
           /\ PlanOf(p).kind = "fail" => Len(wire[p]) = 0
           /\ PlanOf(p).kind # "fail" => Len(wire[p]) = 1

(***************************************************************************)
(* C11.  The order of the steps of a call.                                 *)
(***************************************************************************)
StepOrder == <<"validate", "http", "status", "decode">>

\* C11: the steps of a call are taken in the order validation, HTTP call,
\* status check, decoding, each only after all earlier ones succeeded: a
\* request is on the wire only if the validation passed, the status is checked
\* only if the HTTP call returned no error, and the body is decoded into the
\* result type only if the status is the expected one.
C11_StepsInOrder ==
    \A p \in Callers :
        /\ wire[p] # <<>> => PlanOf(p).kind = "send"
        /\ pc[p] = "done"
           => LET steps == RetOf(p).steps IN
              /\ Len(steps) \in 1..4
              /\ \A i \in 1..Len(steps) : steps[i] = StepOrder[i]
              /\ Len(steps) >= 2 <=> PlanOf(p).kind = "send"
              /\ Len(steps) >= 2 => Len(wire[p]) = 1
              /\ Len(steps) >= 3 <=> (net[p] # Nil /\ NetOf(p).err = Nil)
              /\ Len(steps) = 4 => RespOf(p).StatusCode = PlanOf(p).expected

\* InvokeIncidentAction went through all four steps: 201, then a body that does
\* not decode
C11_Witness ==
    \E p \in Callers :
        /\ Answered(p)
        /\ OpOf(p) = "InvokeIncidentAction"
        /\ RespOf(p) = Response(201, JBad)
        /\ RetOf(p).steps = StepOrder
        /\ RetOf(p).out = Nil
        /\ Deref(RetOf(p).err).kind = "json.SyntaxError"

(***************************************************************************)
(* C14, C15, C16.  The query parameters of the request that is sent.       *)
(***************************************************************************)
Sent(p) == call[p] # Nil /\ Len(wire[p]) >= 1
QueryOf(p) == wire[p][1].Query
HasParam(q, key, value) == \E i \in 1..Len(q) : q[i].k = key /\ q[i].v = value
HasKey(q, key) == \E i \in 1..Len(q) : q[i].k = key

\* C14: the request of GetIncidents and of GetIncidentsCount carries "until"
\* with the input's Until value whenever Until is set, and "from" with the
\* input's From value whenever From is set.
C14_FromUntilCarried ==
    \A p \in Callers :
        (/\ Sent(p)
         /\ OpOf(p) \in {"GetIncidents", "GetIncidentsCount"}
         /\ InputOf(p) # Nil)
        => LET in == Deref(InputOf(p)) IN
           /\ in.Until # Nil => HasParam(QueryOf(p), "until", Deref(in.Until))
           /\ in.From # Nil => HasParam(QueryOf(p), "from", Deref(in.From))

\* C15: the request of GetIncidentResponder and of GetIncidentLogEntries
\* carries lng with the input's Language when it is "en" or "de", and no lng
\* otherwise.
C15_LanguageSent ==
    \A p \in Callers :
        (/\ Sent(p)
         /\ OpOf(p) \in {"GetIncidentResponder", "GetIncidentLogEntries"})
        => LET in == Deref(InputOf(p)) IN
           IF in.Language \in {Some("en"), Some("de")}
           THEN HasParam(QueryOf(p), "lng", Deref(in.Language))
           ELSE ~HasKey(QueryOf(p), "lng")
Count(b) == IF b THEN 1 ELSE 0

\* C16: AssignIncident with an incident id returns "one of assignments is
\* required" and sends nothing exactly when UserID, Username,
\* EscalationPolicyID and ScheduleID are all unset; otherwise it sends one PUT
\* whose query has user-id for UserID and for Username, policy-id for
\* EscalationPolicyID, schedule-id for ScheduleID, each exactly when the field
\* is set, and no other parameter.
C16_AssignmentParams ==
    \A p \in Callers :
        (/\ call[p] # Nil
         /\ OpOf(p) = "AssignIncident"
         /\ InputOf(p) # Nil
         /\ Deref(InputOf(p)).IncidentID # Nil)
        => LET in == Deref(InputOf(p))
               none == /\ in.UserID = Nil /\ in.Username = Nil
                       /\ in.EscalationPolicyID = Nil /\ in.ScheduleID = Nil
           IN IF none
              THEN /\ pc[p] = "done"
                   /\ wire[p] = <<>>
                   /\ RetOf(p).out = Nil
                   /\ RetOf(p).err = Some(errors_New("one of assignments is required"))
              ELSE /\ Len(wire[p]) = 1
                   /\ wire[p][1].Method = "PUT"
                   /\ pc[p] = "done" /\ RetOf(p).err # Nil
                      => ErrText(RetOf(p).err) # "one of assignments is required"
                   /\ in.UserID # Nil
                      <=> (in.UserID # Nil
                           /\ HasParam(QueryOf(p), "user-id", Itoa(Deref(in.UserID))))
                   /\ in.Username # Nil
                      <=> (in.Username # Nil
                           /\ HasParam(QueryOf(p), "user-id", Deref(in.Username)))
                   /\ in.EscalationPolicyID # Nil
                      <=> HasKey(QueryOf(p), "policy-id")
                   /\ in.EscalationPolicyID # Nil
                      => HasParam(QueryOf(p), "policy-id",
                                  Itoa(Deref(in.EscalationPolicyID)))
                   /\ in.ScheduleID # Nil <=> HasKey(QueryOf(p), "schedule-id")
                   /\ in.ScheduleID # Nil
                      => HasParam(QueryOf(p), "schedule-id", Itoa(Deref(in.ScheduleID)))
                   /\ Len(QueryOf(p))
                        = Count(in.UserID # Nil) + Count(in.Username # Nil)
                          + Count(in.EscalationPolicyID # Nil)
                          + Count(in.ScheduleID # Nil)

\* a request with every assignment set: two user-id parameters, a policy-id and
\* a schedule-id
C16_Witness ==
    \E p \in Callers :
        /\ Sent(p)
        /\ OpOf(p) = "AssignIncident"
        /\ Len(QueryOf(p)) = 4
        /\ HasParam(QueryOf(p), "user-id", "bob")
        /\ HasParam(QueryOf(p), "user-id", "1")
        /\ HasKey(QueryOf(p), "schedule-id")
(***************************************************************************)
(* C17, C18.  What is returned once the status is the expected one.        *)
(***************************************************************************)
\* C17: a delete operation never decodes the body: on 204 it returns a non-nil
\* empty output and a nil error whatever the body is, on any other status a nil
\* output and an error.
C17_DeleteNeverDecodes ==
    \A p \in Callers :
        (Answered(p) /\ OpOf(p) \in DeleteOperations)
        => /\ PlanOf(p).decode = Nil
           /\ RetOf(p).steps = <<"validate", "http", "status">>
           /\ IF RespOf(p).StatusCode = 204
              THEN RetOf(p).out = Some(<<>>) /\ RetOf(p).err = Nil
              ELSE RetOf(p).out = Nil /\ RetOf(p).err # Nil

\* DeleteConnector answered with 204 and a body that is no JSON
C17_Witness ==
    \E p \in Callers :
        /\ Answered(p)
        /\ OpOf(p) = "DeleteConnector"
        /\ RespOf(p) = Response(204, JBad)
        /\ RetOf(p).out = Some(<<>>)
        /\ RetOf(p).err = Nil

\* C18: when the status is the expected one and the body does not decode into
\* the result type, an operation that decodes returns a nil output and the
\* decode error, nothing of what was decoded so far.
C18_DecodeErrorNoOutput ==
    \A p \in Callers :
        (/\ Answered(p)
         /\ OpOf(p) \notin DeleteOperations
         /\ RespOf(p).StatusCode = PlanOf(p).expected
         /\ Decoded(p).e # Nil)
        => /\ RetOf(p).out = Nil
           /\ RetOf(p).err = Decoded(p).e
           /\ Deref(RetOf(p).err).kind \in JSONErrors

\* UpdateEscalationPolicy answered with 200 and a body whose id is a string: the
\* name was decoded, the id was not, and nothing is returned but the error
C18_Witness ==
    \E p \in Callers :
        /\ Answered(p)
        /\ OpOf(p) = "UpdateEscalationPolicy"
        /\ RespOf(p) = Response(200, aConnectorBody)
        /\ Decoded(p).e # Nil
        /\ Deref(Decoded(p).e).kind = "json.UnmarshalTypeError"
        /\ Decoded(p).v.Name = "dd"
        /\ RetOf(p).out = Nil

(***************************************************************************)
(* C19, C20.  How a call ends.                                             *)
(***************************************************************************)
Ended(p) == call[p] # Nil /\ pc[p] \in {"done", "panicked"}

\* C19: every call ends by returning exactly one of a non-nil output and a
\* non-nil error.
C19_OutputXorError ==
    \A p \in Callers :
        Ended(p) => /\ ret[p] # Nil
                    /\ (RetOf(p).out # Nil) # (RetOf(p).err # Nil)

\* C20: no operation faults, whatever its input.
C20_NoFault == \A p \in Callers : pc[p] # "panicked"
(***************************************************************************)
(* C13.  The authentication NewClient takes from the environment.          *)
(***************************************************************************)
IsSet(env, key) == env[key] # Nil /\ Deref(env[key]) # ""
Bearer(c) == "Authorization" \in DOMAIN c.httpClient.Header
Basic(c) == c.httpClient.UserInfo # Nil
AuthOptions == {"WithBasicAuth", "WithAPIToken"}
NoAuthOption(options) == \A i \in 1..Len(options) : options[i].name \notin AuthOptions
Unsetting(env) == [k \in EnvKeys |-> IF env[k] = Some("") THEN Nil ELSE env[k]]

\* C13: with no authentication option given, NewClient configures the bearer
\* token and no basic auth if ILERT_API_TOKEN is set and non-empty; otherwise
\* basic auth (username@organization, password) and no bearer token if
\* ILERT_ORGANIZATION, ILERT_USERNAME and ILERT_PASSWORD are all set and
\* non-empty; otherwise neither.  A variable set to the empty string gives the
\* client that the unset variable gives.
C13_AuthFromEnv ==
    (check # Nil /\ "env" \in DOMAIN check /\ check.stage = "out")
    => LET env == check.env
           c == Deref(check.c)
       IN /\ c = NewClient(Unsetting(env), check.options)
          /\ NoAuthOption(check.options)
             => IF IsSet(env, "ILERT_API_TOKEN")
                THEN /\ Bearer(c)
                     /\ c.httpClient.Header["Authorization"] = "Bearer tok"
                     /\ ~Basic(c)
                ELSE IF /\ IsSet(env, "ILERT_ORGANIZATION")
                        /\ IsSet(env, "ILERT_USERNAME")
                        /\ IsSet(env, "ILERT_PASSWORD")
                THEN /\ Basic(c)
                     /\ c.httpClient.UserInfo
                          = Some([Username |-> "bob@org", Password |-> "pw"])
                     /\ ~Bearer(c)
                ELSE ~Bearer(c) /\ ~Basic(c)

\* ILERT_API_TOKEN is set to the empty string and the three basic-auth
\* variables have values: basic auth is configured
C13_Witness ==
    /\ check # Nil /\ "env" \in DOMAIN check /\ check.stage = "out"
    /\ check.options = <<>>
    /\ check.env["ILERT_API_TOKEN"] = Some("")
    /\ IsSet(check.env, "ILERT_ORGANIZATION")
    /\ IsSet(check.env, "ILERT_USERNAME")
    /\ IsSet(check.env, "ILERT_PASSWORD")
    /\ Basic(Deref(check.c))
    /\ ~Bearer(Deref(check.c))
(***************************************************************************)
(* C12.  Encoding a value and decoding it back.                            *)
(***************************************************************************)
RoundTripped == check # Nil /\ "back" \in DOMAIN check /\ check.stage = "decoded"
Back == Deref(check.back)

NilOrNotEmpty(v, T) ==
    \/ v = Nil
    \/ IF T.k = "slice" THEN Len(Deref(v)) > 0 ELSE DOMAIN Deref(v) # {}

RECURSIVE Canonical(_, _)
RECURSIVE CanonicalAny(_)
CanonicalAny(x) ==
    /\ ~IsDyn(x)
    /\ CASE x.t = "str" -> x.s # InvalidUTF8
         [] x.t = "arr" -> \A i \in 1..Len(x.a) : CanonicalAny(x.a[i])
         [] x.t = "obj" -> \A k \in DOMAIN x.o : CanonicalAny(x.o[k])
         [] OTHER -> TRUE

\* a value json.Marshal encodes without loss: strings are valid UTF-8, a slice
\* or map under omitempty is nil or not empty, and what an interface holds has
\* the form Unmarshal produces
Canonical(v, T) ==
    CASE T.k = "string" -> v # InvalidUTF8
      [] T.k = "ptr" -> v = Nil \/ Canonical(Deref(v), T.elem)
      [] T.k = "interface" -> v = Nil \/ CanonicalAny(Deref(v))
      [] T.k = "map" -> v = Nil \/ \A k \in DOMAIN Deref(v) : CanonicalAny(Deref(v)[k])
      [] T.k = "slice" ->
            v = Nil \/ \A i \in 1..Len(Deref(v)) : Canonical(Deref(v)[i], T.elem)
      [] T.k = "struct" ->
            \A i \in 1..Len(T.fields) :
                LET f == T.fields[i] IN
                /\ Canonical(v[f.name], f.type)
                /\ (f.omitempty /\ f.type.k \in {"slice", "map"})
                   => NilOrNotEmpty(v[f.name], f.type)
      [] OTHER -> TRUE

Made == check # Nil /\ "env" \in DOMAIN check /\ check.stage = "out"

\* the authentication options among the options, in the order given
AuthOptionsOf(options) ==
    LET IsAuth(opt) == opt.name \in AuthOptions IN SelectSeq(options, IsAuth)

\* C21: the client NewClient returns has at most one of bearer token and basic
\* auth configured, and when authentication options were given it has the
\* scheme of the last one, with that option's credentials, in place of what
\* the environment gave.
C21_OneAuthScheme ==
    Made
    => LET c == Deref(check.c)
           auth == AuthOptionsOf(check.options)
       IN /\ ~(Bearer(c) /\ Basic(c))
          /\ Len(auth) > 0
             => LET last == auth[Len(auth)] IN
                IF last.name = "WithAPIToken"
                THEN /\ Bearer(c)
                     /\ c.httpClient.Header["Authorization"] = "Bearer " \o last.a[1]
                     /\ ~Basic(c)
                ELSE /\ Basic(c)
                     /\ c.httpClient.UserInfo
                          = Some([Username |-> last.a[2] \o "@" \o last.a[1],
                                  Password |-> last.a[3]])
                     /\ ~Bearer(c)
\* C22: the apiEndpoint field of the client NewClient returns is the base URL
\* configured on its HTTP client.
C22_EndpointIsHostURL ==
    Made => Deref(check.c).apiEndpoint = Deref(check.c).httpClient.HostURL

====
